---- MODULE Spec2Model ----
(***************************************************************************)
(* grapple-config: a ConfigurationProvider holding a live ("volatile")     *)
(* Config over a ConfigurationMarshal backend.  Two backends are modelled: *)
(* VolatileMarshal (no storage) and M24C64ConfigurationMarshal, which      *)
(* frames the serialised Config as a 2-byte little-endian length followed  *)
(* by the payload at address_offset of a byte-addressable EEPROM.          *)
(*                                                                         *)
(* Every handler is one atomic action (the crate is single-threaded and    *)
(* blocking).  The bus operations, codec calls and backend calls a handler *)
(* makes are recorded, in order, in `trace`.  What the I2C bus does on a   *)
(* call (succeed, or fail after storing a proper prefix of the data) is    *)
(* the environment's choice.                                               *)
(***************************************************************************)
EXTENDS Integers, Sequences, FiniteSets, TLC

VARIABLES
  mem,             \* the EEPROM's bytes; address a is mem[a + 1]
  address_offset,  \* M24C64ConfigurationMarshal.address_offset
  marshal,         \* which ConfigurationMarshal is in use
  ready,           \* TRUE while a ConfigurationProvider exists
  volatile,        \* ConfigurationProvider.volatile, <<c>> (<<>>: no Provider)
  last_applied,    \* ConfigurationProvider.last_applied, <<>> (None) or <<c>>
  op,              \* the operation performed last
  arg,             \* the Config handed to it, <<c>>, or <<>>
  result,          \* what it returned
  trace,           \* the backend, codec and bus calls it made, in order
  lastOk,          \* history: the Config of the last backend write that returned Ok
  wstate,          \* history: how the last write that reached the bus ended:
                   \*   "ok", "failed" (on the length write), "torn" (on the
                   \*   payload write), or "never"
  streak           \* history: successful commits in a row on an unchanged live value

vars == <<mem, address_offset, marshal, ready, volatile, last_applied,
          op, arg, result, trace, lastOk, wstate, streak>>

(***************************************************************************)
(* Bounds of the model.                                                    *)
(***************************************************************************)
\* number of bytes of the device under Spec
MemSize == 8
\* address_offset ranges over 0..MaxOffset
MaxOffset == 1
\* streak stops counting here
MaxStreak == 2
\* a failing bus write has stored at most this many bytes
MaxStored == 1

(***************************************************************************)
(* Widths and the erase value.                                             *)
(***************************************************************************)
EraseByte == 255
TwoPow8 == 256
TwoPow16 == 65536

Min(a, b) == IF a < b THEN a ELSE b

\* a function on 1..n as a sequence value (a Vec<u8> or a byte slice)
Bytes(f) == <<>> \o f

\* Result<_, _>: tag "Ok" carries <<value>> (or <<>> for the unit value)
Ok(v) == [tag |-> "Ok", val |-> <<v>>]
OkUnit == [tag |-> "Ok", val |-> <<>>]
Err(e) == [tag |-> e, val |-> <<>>]
IsOk(r) == r.tag = "Ok"

\* one entry of `trace`
Ev(name, addr, n, ok) == [ev |-> name, addr |-> addr, n |-> n, ok |-> ok]

(***************************************************************************)
(* The Config type and its deku codec.  Config is caller-defined; the      *)
(* model uses an enum with a one-byte id:                                  *)
(*    id 0: no field (the Default),  id 1: one u8 field,                   *)
(*    id 2..5: no field, followed by padding (deku's pad_bytes_after) that *)
(*             makes the payload 65534..65537 bytes long.                  *)
(* A field byte must satisfy the type's deku assert (ValidField) both when *)
(* written and when read.  Padding is written as zeros and skipped,        *)
(* whatever it holds, when read.                                           *)
(***************************************************************************)
FieldCount(id) == IF id = 1 THEN 1 ELSE 0

PadBytes(id) ==
  CASE id = 2 -> TwoPow16 - 3
    [] id = 3 -> TwoPow16 - 2
    [] id = 4 -> TwoPow16 - 1
    [] id = 5 -> TwoPow16
    [] OTHER -> 0

Padding(n) == <<>> \o [i \in 1..n |-> 0]

Variants == 0..5

ValidField(b) == b \in {0, 1}

Cfg(id, fields) == [id |-> id, fields |-> fields]

\* Config::default()
Default == Cfg(0, <<>>)

\* DekuContainerWrite::to_bytes
to_bytes(c) ==
  IF \E i \in 1..FieldCount(c.id) : ~ValidField(c.fields[i])
  THEN Err("Deku")
  ELSE Ok(<<c.id>> \o c.fields \o Padding(PadBytes(c.id)))

\* DekuContainerRead::from_bytes((buf, 0)); bytes after the value are the
\* "rest", which read() drops
from_bytes(buf, len) ==
  IF len = 0 THEN Err("Deku")
  ELSE IF buf[1] \notin Variants THEN Err("Deku")
  ELSE IF len < 1 + FieldCount(buf[1]) + PadBytes(buf[1]) THEN Err("Deku")
  ELSE LET fields == SubSeq(buf, 2, 1 + FieldCount(buf[1]))
       IN IF \E i \in 1..FieldCount(buf[1]) : ~ValidField(fields[i])
          THEN Err("Deku")
          ELSE Ok(Cfg(buf[1], fields))

\* `bytes.len() as u16`
AsU16(n) == n % TwoPow16

\* u16::to_le_bytes
to_le_bytes(n) == <<n % TwoPow8, n \div TwoPow8>>

\* u16::from_le_bytes
from_le_bytes(b) == b[1] + TwoPow8 * b[2]

(***************************************************************************)
(* The EEPROM behind M24C64<I2C>: byte-addressable, addresses wrap at the  *)
(* end of the device.                                                      *)
(***************************************************************************)
WriteBytes(m, sz, addr, data, dl) ==
  Bytes([a1 \in 1..sz |->
     LET k == (a1 - 1 - addr) % sz
     IN IF k < dl THEN data[k + 1 + ((dl - 1 - k) \div sz) * sz] ELSE m[a1]])

\* M24C64::write(address, data, delay), the bus call succeeding
EepromWrite(m, addr, data) == WriteBytes(m, Len(m), addr, data, Len(data))

\* M24C64::write failing on the bus after the first k bytes were stored; a
\* failing write has stored fewer bytes than it was given
EepromWritePartial(m, addr, data, k) ==
  WriteBytes(m, Len(m), addr, data, Min(k, Len(data) - 1))

ReadBytes(m, sz, addr, n) == [i \in 1..n |-> m[((addr + i - 1) % sz) + 1]]

\* M24C64::read(address, buf), the bus call succeeding; the filled buf
EepromRead(m, addr, n) == ReadBytes(m, Len(m), addr, n)

(***************************************************************************)
(* What the bus may do during a handler.  A write handler makes up to two  *)
(* bus writes: failAt = 0 lets both succeed, failAt = 1 fails the first,   *)
(* failAt = 2 the second; the failing write has stored its first k bytes   *)
(* (at most all but the last).  A read handler makes up to two bus reads;  *)
(* 0, 1, 2 likewise.                                                       *)
(***************************************************************************)
Bus(f, k) == [failAt |-> f, k |-> k]
NoFault == Bus(0, 0)
WriteFaults == {Bus(f, k) : f \in 1..2, k \in 0..MaxStored} \cup {NoFault}
ReadFaults == 0..2

\* mutant: bytes that do not decode are reported as a blank device
DecodedAsBlank(r, traceOk, traceErr) ==
  [res |-> IF IsOk(r) THEN r ELSE Err("BlankEeprom"),
   trace |-> IF IsOk(r) THEN traceOk ELSE traceErr, config |-> <<>>]

\* the match on from_bytes' result that ends read()
Decoded(r, traceOk, traceErr) ==
  [res |-> r, trace |-> IF IsOk(r) THEN traceOk ELSE traceErr, config |-> <<>>]

(***************************************************************************)
(* impl ConfigurationMarshal for M24C64ConfigurationMarshal                *)
(***************************************************************************)
\* mutant: the payload written one byte too low
WritePayloadAddrLow(off) == off + 1

\* mutant: the payload written one byte too high
WritePayloadAddrHigh(off) == off + 3

\* `self.address_offset + 0x02` in write() and in read()
WritePayloadAddr(off) == off + 2
ReadPayloadAddr(off) == off + 2

\* mutant: `||` for `&&`
IsBlankEither(len_buf) == len_buf[1] = EraseByte \/ len_buf[2] = EraseByte

\* `len_buf[0] == 255 && len_buf[1] == 255`
IsBlank(len_buf) == len_buf[1] = EraseByte /\ len_buf[2] = EraseByte

\* write(), from the serialised payload on: the two bus writes
M24WriteFrameAt(m, off, payload, len, bus) ==
  LET len_bytes == to_le_bytes(AsU16(len))
      t0 == <<Ev("to_bytes", 0, len, TRUE)>>
      t1 == t0 \o <<Ev("eeprom.write", off, 2, bus.failAt # 1)>>
      t2 == t1 \o <<Ev("eeprom.write", WritePayloadAddr(off), len, bus.failAt # 2)>>
  IN IF bus.failAt = 1
     THEN [mem |-> EepromWritePartial(m, off, len_bytes, bus.k),
           res |-> Err("I2C"), trace |-> t1, config |-> <<>>]
     ELSE IF bus.failAt = 2
     THEN [mem |-> EepromWritePartial(EepromWrite(m, off, len_bytes),
                                      WritePayloadAddr(off), payload, bus.k),
           res |-> Err("I2C"), trace |-> t2, config |-> <<>>]
     ELSE [mem |-> EepromWrite(EepromWrite(m, off, len_bytes),
                               WritePayloadAddr(off), payload),
           res |-> OkUnit, trace |-> t2, config |-> <<>>]

\* mutant: the new length is added to the stored one
M24WriteFrameAddLen(m, off, payload, len, bus) ==
  M24WriteFrameAt(m, off, payload,
                  IF IsBlank(EepromRead(m, off, 2)) THEN len
                  ELSE len + from_le_bytes(EepromRead(m, off, 2)),
                  bus)

\* mutant: a failed length write does not end write()
M24WriteFrameNoStop(m, off, payload, len, bus) ==
  IF bus.failAt = 1
  THEN [mem |-> EepromWrite(M24WriteFrameAt(m, off, payload, len, bus).mem,
                            WritePayloadAddr(off), payload),
        res |-> Err("I2C"),
        trace |-> M24WriteFrameAt(m, off, payload, len, bus).trace
                    \o <<Ev("eeprom.write", WritePayloadAddr(off), len, TRUE)>>,
        config |-> <<>>]
  ELSE M24WriteFrameAt(m, off, payload, len, bus)

\* mutant: the payload is written before the length
M24WriteFramePayloadFirst(m, off, payload, len, bus) ==
  LET len_bytes == to_le_bytes(AsU16(len))
      t0 == <<Ev("to_bytes", 0, len, TRUE)>>
      t1 == t0 \o <<Ev("eeprom.write", WritePayloadAddr(off), len, bus.failAt # 1)>>
      t2 == t1 \o <<Ev("eeprom.write", off, 2, bus.failAt # 2)>>
  IN IF bus.failAt = 1
     THEN [mem |-> EepromWritePartial(m, WritePayloadAddr(off), payload, bus.k),
           res |-> Err("I2C"), trace |-> t1, config |-> <<>>]
     ELSE IF bus.failAt = 2
     THEN [mem |-> EepromWritePartial(EepromWrite(m, WritePayloadAddr(off), payload),
                                      off, len_bytes, bus.k),
           res |-> Err("I2C"), trace |-> t2, config |-> <<>>]
     ELSE [mem |-> EepromWrite(EepromWrite(m, WritePayloadAddr(off), payload),
                               off, len_bytes),
           res |-> OkUnit, trace |-> t2, config |-> <<>>]

M24WriteFrame(m, off, payload, len, bus) ==
  M24WriteFrameAt(m, off, payload, len, bus)

\* mutant: a Config that does not serialise is stored as an empty frame
M24WriteSerialisedLossy(m, off, bytes, bus) ==
  IF ~IsOk(bytes)
  THEN [mem |-> EepromWrite(m, off, to_le_bytes(0)), res |-> Err("Deku"),
        trace |-> <<Ev("to_bytes", 0, 0, FALSE)>>, config |-> <<>>]
  ELSE M24WriteFrame(m, off, bytes.val[1], Len(bytes.val[1]), bus)

\* write(), from the result of to_bytes on
M24WriteSerialised(m, off, bytes, bus) ==
  IF ~IsOk(bytes)
  THEN [mem |-> m, res |-> Err("Deku"),
        trace |-> <<Ev("to_bytes", 0, 0, FALSE)>>, config |-> <<>>]
  ELSE M24WriteFrame(m, off, bytes.val[1], Len(bytes.val[1]), bus)

M24Write(m, off, config, bus) ==
  M24WriteSerialised(m, off, to_bytes(config), bus)

\* read(), from the length bytes on
M24ReadFrame(m, off, len_buf, n, fault) ==
  LET t1 == <<Ev("eeprom.read", off, 2, TRUE)>>
      t2 == t1 \o <<Ev("eeprom.read", ReadPayloadAddr(off), n, fault # 2)>>
      t3 == t2 \o <<Ev("from_bytes", 0, n, TRUE)>>
      t4 == t2 \o <<Ev("from_bytes", 0, n, FALSE)>>
  IN IF IsBlank(len_buf)
     THEN [res |-> Err("BlankEeprom"), trace |-> t1, config |-> <<>>]
     ELSE IF fault = 2 THEN [res |-> Err("I2C"), trace |-> t2, config |-> <<>>]
     ELSE Decoded(from_bytes(EepromRead(m, ReadPayloadAddr(off), n), n), t3, t4)

M24Read(m, off, fault) ==
  IF fault = 1
  THEN [res |-> Err("I2C"), trace |-> <<Ev("eeprom.read", off, 2, FALSE)>>,
        config |-> <<>>]
  ELSE M24ReadFrame(m, off, EepromRead(m, off, 2),
                    from_le_bytes(EepromRead(m, off, 2)), fault)

(***************************************************************************)
(* impl ConfigurationMarshal for VolatileMarshal                           *)
(***************************************************************************)
\* mutant: the write reaches the device
VolatileWriteThrough(m, config) == M24Write(m, 0, config, NoFault)

VolatileWrite(m, config) ==
  [mem |-> m, res |-> OkUnit, trace |-> <<>>, config |-> <<>>]

VolatileRead(m) == [res |-> Ok(Default), trace |-> <<>>, config |-> <<>>]

\* a backend call's outcome with the call itself put in front of its trace;
\* config is the call's argument, <<c>> or <<>>
Called(name, config, out) ==
  [out EXCEPT !.trace = <<Ev(name, 0, 0, IsOk(out.res))>> \o out.trace,
              !.config = config]

\* Marshal::write and Marshal::read of the backend in use
MarshalWrite(m, config, bus) ==
  Called("marshal.write", <<config>>,
         IF marshal = "Volatile" THEN VolatileWrite(m, config)
         ELSE M24Write(m, address_offset, config, bus))

MarshalRead(m, fault) ==
  Called("marshal.read", <<>>,
         IF marshal = "Volatile" THEN VolatileRead(m)
         ELSE M24Read(m, address_offset, fault))

\* the history variables after a backend write of config that returned res
\* and made the calls of trace t
Wrote(config, res, t) ==
  /\ lastOk' = IF IsOk(res) THEN <<config>> ELSE lastOk
  /\ wstate' = IF IsOk(res) THEN "ok"
               ELSE IF res.tag # "I2C" THEN wstate
               ELSE IF t[Len(t)].addr = address_offset THEN "failed" ELSE "torn"

(***************************************************************************)
(* The Configs a caller hands in under Spec.  Cfg(1, <<2>>) fails the      *)
(* codec's assert, so to_bytes rejects it.                                 *)
(***************************************************************************)
Configs == {Default, Cfg(1, <<0>>), Cfg(1, <<1>>), Cfg(1, <<2>>)}

TypeOK ==
  /\ ready \in BOOLEAN
  /\ marshal \in {"Volatile", "M24C64"}
  /\ address_offset \in 0..MaxOffset
  /\ Len(volatile) = (IF ready THEN 1 ELSE 0)
  /\ Len(last_applied) \in 0..1
  /\ wstate \in {"never", "ok", "failed", "torn"}
  /\ streak \in 0..MaxStreak

Init ==
  /\ mem = Bytes([a \in 1..MemSize |-> EraseByte])
  /\ address_offset \in 0..MaxOffset
  /\ marshal \in {"Volatile", "M24C64"}
  /\ ready = FALSE
  /\ volatile = <<>>
  /\ last_applied = <<>>
  /\ op = "init"
  /\ arg = <<>>
  /\ result = OkUnit
  /\ trace = <<>>
  /\ lastOk = <<>>
  /\ wstate = "never"
  /\ streak = 0

(***************************************************************************)
(* The backend used directly, while no Provider owns it.                   *)
(***************************************************************************)
\* the state after a backend write of config with outcome w
WriteDone(name, w) ==
  /\ mem' = w.mem
  /\ op' = name
  /\ arg' = w.config
  /\ result' = w.res
  /\ trace' = w.trace
  /\ Wrote(w.config[1], w.res, w.trace)
  /\ streak' = IF name = "commit" /\ IsOk(w.res)
                THEN Min(streak + 1, MaxStreak) ELSE 0

\* the state after a backend read with outcome r
ReadDone(r) ==
  /\ op' = "marshal.read"
  /\ arg' = <<>>
  /\ result' = r.res
  /\ trace' = r.trace
  /\ streak' = 0

DirectWrite(C, F) ==
  /\ ~ready
  /\ \E config \in C, bus \in F :
       WriteDone("marshal.write", MarshalWrite(mem, config, bus))
  /\ UNCHANGED <<address_offset, marshal, ready, volatile, last_applied>>

DirectRead(F) ==
  /\ ~ready
  /\ \E fault \in F : ReadDone(MarshalRead(mem, fault))
  /\ UNCHANGED <<mem, address_offset, marshal, ready, volatile, last_applied,
                 lastOk, wstate>>

(***************************************************************************)
(* ConfigurationProvider                                                   *)
(***************************************************************************)
\* mutant: the default is adopted without being written
FallbackWriteSkipped(m, bus) ==
  [mem |-> m, res |-> OkUnit, trace |-> <<>>, config |-> <<Default>>]

\* `marshal.write(&c)?` with c = Config::default(), in new()
FallbackWrite(m, bus) == MarshalWrite(m, Default, bus)

\* mutant: the error of read() is returned
FallbackResultOfRead(r, w) == IF IsOk(w.res) THEN w.res ELSE r.res

\* what new() returns when read() failed with outcome r and the write of the
\* default ended with outcome w: Ok(Self) (the unit value here) or w's error
FallbackResult(r, w) == w.res

\* mutant: the default is written also when read() succeeded
NewDoneRewrites(r, w) ==
  /\ ready' = IsOk(w.res)
  /\ volatile' = IF ~IsOk(w.res) THEN <<>>
                 ELSE IF IsOk(r.res) THEN r.res.val ELSE <<Default>>
  /\ arg' = w.config
  /\ result' = FallbackResult(r, w)
  /\ trace' = r.trace \o w.trace
  /\ mem' = w.mem
  /\ Wrote(w.config[1], w.res, w.trace)

\* the state after new(): r is read()'s outcome, w the outcome of the write of
\* the default, which is made only when read() failed
NewDone(r, w) ==
  IF IsOk(r.res)
  THEN /\ ready' = TRUE
       /\ volatile' = r.res.val
       /\ arg' = <<>>
       /\ result' = OkUnit
       /\ trace' = r.trace
       /\ UNCHANGED <<mem, lastOk, wstate>>
  ELSE /\ ready' = IsOk(w.res)
       /\ volatile' = IF IsOk(w.res) THEN <<Default>> ELSE <<>>
       /\ arg' = w.config
       /\ result' = FallbackResult(r, w)
       /\ trace' = r.trace \o w.trace
       /\ mem' = w.mem
       /\ Wrote(w.config[1], w.res, w.trace)

\* new(), the bus behaving as RF and WF allow
NewOver(RF, WF) ==
  /\ ~ready
  /\ \E fault \in RF, bus \in WF :
       NewDone(MarshalRead(mem, fault), FallbackWrite(mem, bus))
  /\ last_applied' = <<>>
  /\ op' = "new"
  /\ streak' = 0
  /\ UNCHANGED <<address_offset, marshal>>

New == NewOver(ReadFaults, WriteFaults)

\* mutant: the write's error is dropped
CommitWriteSwallowed(m, config, bus) ==
  [MarshalWrite(m, config, bus) EXCEPT !.res = OkUnit]

\* `self.marshal.write(&self.volatile)`, the whole of commit()
CommitWrite(m, config, bus) == MarshalWrite(m, config, bus)

\* commit(), the bus behaving as WF allows
CommitOver(WF) ==
  /\ ready
  /\ \E bus \in WF :
       WriteDone("commit", CommitWrite(mem, volatile[1], bus))
  /\ UNCHANGED <<address_offset, marshal, ready, volatile, last_applied>>

Commit == CommitOver(WriteFaults)

Current ==
  /\ ready
  /\ op' = "current"
  /\ arg' = <<>>
  /\ result' = Ok(volatile[1])
  /\ trace' = <<>>
  /\ UNCHANGED <<mem, address_offset, marshal, ready, volatile, last_applied,
                 lastOk, wstate, streak>>

\* mutant: the assignment is written through to the backend
CurrentMutWriteThrough ==
  /\ ready
  /\ \E config \in Configs :
       /\ volatile' = <<config>>
       /\ WriteDone("current_mut", MarshalWrite(mem, config, NoFault))
  /\ UNCHANGED <<address_offset, marshal, ready, last_applied>>

\* the caller assigns a Config of C through the &mut Config that
\* current_mut() returns
CurrentMutOf(C) ==
  /\ ready
  /\ \E config \in C : volatile' = <<config>> /\ arg' = <<config>>
  /\ op' = "current_mut"
  /\ result' = OkUnit
  /\ trace' = <<>>
  /\ streak' = 0
  /\ UNCHANGED <<mem, address_offset, marshal, ready, last_applied,
                 lastOk, wstate>>

CurrentMut == CurrentMutOf(Configs)

Applied ==
  /\ ready
  /\ op' = "applied"
  /\ arg' = <<>>
  /\ result' = [tag |-> "Ok", val |-> last_applied]
  /\ trace' = <<>>
  /\ UNCHANGED <<mem, address_offset, marshal, ready, volatile, last_applied,
                 lastOk, wstate, streak>>

\* mutant: the snapshot is taken of the committed value
ApplyCommitted ==
  /\ ready
  /\ last_applied' = lastOk
  /\ op' = "apply"
  /\ arg' = <<>>
  /\ result' = OkUnit
  /\ trace' = <<>>
  /\ UNCHANGED <<mem, address_offset, marshal, ready, volatile, lastOk, wstate,
                 streak>>

Apply ==
  /\ ready
  /\ last_applied' = volatile
  /\ op' = "apply"
  /\ arg' = <<>>
  /\ result' = OkUnit
  /\ trace' = <<>>
  /\ UNCHANGED <<mem, address_offset, marshal, ready, volatile, lastOk, wstate,
                 streak>>

\* the Provider (and the backend it owns) goes out of scope; the device keeps
\* its bytes
Drop ==
  /\ ready
  /\ ready' = FALSE
  /\ volatile' = <<>>
  /\ last_applied' = <<>>
  /\ op' = "drop"
  /\ arg' = <<>>
  /\ result' = OkUnit
  /\ trace' = <<>>
  /\ streak' = 0
  /\ UNCHANGED <<mem, address_offset, marshal, lastOk, wstate>>

Write == DirectWrite(Configs, WriteFaults)
Read == DirectRead(ReadFaults)

Next ==
  \/ Write
  \/ Read
  \/ New
  \/ Commit
  \/ Current
  \/ CurrentMut
  \/ Applied
  \/ Apply
  \/ Drop

Spec == Init /\ [][Next]_vars

(***************************************************************************)
(* SpecBig: the M24C64 backend used directly on a device large enough for  *)
(* the payloads around the 16-bit boundary of the length field.            *)
(***************************************************************************)
BigMemSize == TwoPow16 + 4

BigConfigs ==
  {Cfg(id, <<>>) : id \in 2..5} \cup {Default, Cfg(1, <<1>>), Cfg(1, <<2>>)}

InitBig ==
  /\ mem = Bytes([a \in 1..BigMemSize |-> EraseByte])
  /\ address_offset = 0
  /\ marshal = "M24C64"
  /\ ready = FALSE
  /\ volatile = <<>>
  /\ last_applied = <<>>
  /\ op = "init"
  /\ arg = <<>>
  /\ result = OkUnit
  /\ trace = <<>>
  /\ lastOk = <<>>
  /\ wstate = "never"
  /\ streak = 0

WriteBig == DirectWrite(BigConfigs, {NoFault})
ReadBig == DirectRead(ReadFaults)

NextBig ==
  \/ WriteBig
  \/ ReadBig

SpecBig == InitBig /\ [][NextBig]_vars

(***************************************************************************)
(* SpecBoot: a Provider over the M24C64 backend on the large device, the   *)
(* bus never failing: construct, assign, commit, apply, drop and construct *)
(* again.                                                                  *)
(***************************************************************************)
BootConfigs == {Default, Cfg(1, <<1>>), Cfg(3, <<>>)}

NewBoot == NewOver({0}, {NoFault})
CurrentMutBoot == CurrentMutOf(BootConfigs)
CommitBoot == CommitOver({NoFault})

NextBoot ==
  \/ NewBoot
  \/ CurrentMutBoot
  \/ CommitBoot
  \/ Apply
  \/ Drop

SpecBoot == InitBig /\ [][NextBoot]_vars

(***************************************************************************)
(* Properties.                                                             *)
(***************************************************************************)
OnDevice == marshal = "M24C64"

\* the byte stored at address a
ByteAt(a) == mem[(a % Len(mem)) + 1]

\* how many entries of trace t are calls of name
NumEv(t, name) == Cardinality({i \in 1..Len(t) : t[i].ev = name})

\* whether t holds a call of name that ended ok / failed
HasEv(t, name, ok) == \E i \in 1..Len(t) : t[i].ev = name /\ t[i].ok = ok

\* the number of bytes Config c serialises to
PayloadLen(c) == 1 + FieldCount(c.id) + PadBytes(c.id)

\* the payload's length can be told apart from the blank sentinel
Fits(c) == PayloadLen(c) < TwoPow16 - 1

\* the device holds c's frame at address_offset
HoldsFrame(c) ==
  /\ \A i \in 1..2 :
       ByteAt(address_offset + i - 1) = to_le_bytes(PayloadLen(c))[i]
  /\ \A i \in 1..PayloadLen(c) :
       ByteAt(address_offset + 2 + i - 1) = to_bytes(c).val[1][i]

\* a value of the Config type
IsConfig(c) ==
  /\ c.id \in Variants
  /\ Len(c.fields) = FieldCount(c.id)
  /\ \A i \in 1..Len(c.fields) : c.fields[i] \in 0..(TwoPow8 - 1)

\* the tag a backend write returned, told from the calls it made
WriteTag(t) ==
  IF HasEv(t, "marshal.write", TRUE) THEN "Ok"
  ELSE IF HasEv(t, "to_bytes", FALSE) THEN "Deku" ELSE "I2C"

\* C1: on the M24C64 backend, a write(c) that returned Ok, of a Config whose
\* payload fits the length field, followed at once by a read() whose bus calls
\* succeed, makes that read() return Ok(c).
C1_RoundTrip ==
  [][(/\ OnDevice
      /\ op = "marshal.write" /\ IsOk(result) /\ Fits(arg[1])
      /\ op' = "marshal.read" /\ result'.tag # "I2C")
     => result' = Ok(arg[1])]_vars

\* a read() has returned the one-field Config that the last write stored
C1_Witness ==
  /\ OnDevice /\ op = "marshal.read"
  /\ wstate = "ok" /\ lastOk = <<Cfg(1, <<1>>)>>
  /\ result = Ok(Cfg(1, <<1>>))

C3_BlankDetection ==
  (OnDevice /\ op = "marshal.read" /\ trace[2].ok)
    => LET b0 == ByteAt(address_offset)
           b1 == ByteAt(address_offset + 1)
           blank == b0 = EraseByte /\ b1 = EraseByte
       IN /\ (result.tag = "BlankEeprom") <=> blank
          /\ blank => Len(trace) = 2
          /\ ~blank => /\ Len(trace) >= 3
                       /\ trace[3].ev = "eeprom.read"
                       /\ trace[3].addr = address_offset + 2
                       /\ trace[3].n = b0 + TwoPow8 * b1

\* a read() met a length field with exactly one byte 0xFF and went on to
\* decode the payload
C3_Witness ==
  /\ OnDevice /\ op = "marshal.read" /\ trace[2].ok
  /\ ByteAt(address_offset) # EraseByte
  /\ ByteAt(address_offset + 1) = EraseByte
  /\ HasEv(trace, "from_bytes", FALSE)

\* C4: when read() fails in new(), whatever the failure, write is called
\* exactly once, with the default; if that write returns Ok, new() returns a
\* Provider whose live value is the default, and the M24C64 device holds the
\* default's frame.
C4_Fallback ==
  (op = "new" /\ ~trace[1].ok)
    => /\ NumEv(trace, "marshal.write") = 1
       /\ arg = <<Default>>
       /\ HasEv(trace, "marshal.write", TRUE)
            => /\ IsOk(result) /\ ready /\ volatile = <<Default>>
               /\ OnDevice => HoldsFrame(Default)

\* new() fell back to the default after read() failed to decode
C4_Witness ==
  /\ op = "new" /\ ready /\ IsOk(result)
  /\ HasEv(trace, "from_bytes", FALSE)
  /\ HasEv(trace, "marshal.write", TRUE)

\* C5: when read() and the write of the default both fail in new(), new()
\* returns the write's error and no Provider exists; a Provider that exists
\* holds a value of the Config type.
C5_FailFast ==
  /\ (op = "new" /\ ~trace[1].ok /\ HasEv(trace, "marshal.write", FALSE))
       => /\ ~ready /\ volatile = <<>>
          /\ result = Err(WriteTag(trace))
  /\ (op = "new" /\ ~IsOk(result)) => ~ready
  /\ ready => (Len(volatile) = 1 /\ IsConfig(volatile[1]))

\* new() failed with the bus error of the write after read() had found the
\* device blank
C5_Witness ==
  /\ op = "new" /\ ~ready
  /\ Len(trace) = 5 /\ trace[2].ev = "eeprom.read" /\ trace[2].ok
  /\ ~HasEv(trace, "from_bytes", FALSE)
  /\ result = Err("I2C")

\* C6 as claimed: a payload of 65534 bytes round-trips, and a write whose
\* payload is 65535 bytes long is rejected before any bus write.
C6_LengthBoundary ==
  /\ (OnDevice /\ op = "marshal.read" /\ result.tag # "I2C"
        /\ wstate = "ok" /\ PayloadLen(lastOk[1]) = TwoPow16 - 2)
       => result = Ok(lastOk[1])
  /\ (OnDevice /\ op = "marshal.write" /\ PayloadLen(arg[1]) = TwoPow16 - 1)
       => (~IsOk(result) /\ NumEv(trace, "eeprom.write") = 0)

\* C7: a commit() that returns Ok, made after a commit() that returned Ok with
\* no change of the live value and no other write in between, leaves every
\* byte of the M24C64 device as it was.
C7_CommitIdempotent ==
  [][(OnDevice /\ streak >= 1 /\ op' = "commit" /\ IsOk(result'))
     => mem' = mem]_vars

\* two commits in a row of a one-field Config have returned Ok
C7_Witness ==
  /\ OnDevice /\ op = "commit" /\ IsOk(result)
  /\ streak = 2 /\ volatile = <<Cfg(1, <<1>>)>>

\* C8: commit() calls write exactly once, with the live value, and returns
\* what that call returned; it changes neither the live value nor the applied
\* snapshot, and the Provider is still there afterwards.
C8_CommitPassThrough ==
  [][(op' = "commit")
     => /\ NumEv(trace', "marshal.write") = 1
        /\ arg' = volatile
        /\ result'.tag = WriteTag(trace')
        /\ volatile' = volatile
        /\ last_applied' = last_applied
        /\ ready']_vars

\* a commit() has failed on the bus, with an applied snapshot in place
C8_Witness ==
  /\ op = "commit" /\ result = Err("I2C")
  /\ ready /\ last_applied = <<Cfg(1, <<0>>)>> /\ volatile = <<Cfg(1, <<1>>)>>

\* C9: current(), an assignment through current_mut(), apply() and applied()
\* make no backend call and leave the device as it was.
C9_NoPersistenceBeforeCommit ==
  [][(op' \in {"current", "current_mut", "apply", "applied"})
     => /\ mem' = mem
        /\ trace' = <<>>
        /\ lastOk' = lastOk
        /\ wstate' = wstate]_vars

\* the live value was changed and applied, and the device still holds the
\* frame of the earlier commit
C9_Witness ==
  /\ OnDevice /\ ready /\ op = "apply"
  /\ wstate = "ok" /\ lastOk = <<Default>>
  /\ volatile = <<Cfg(1, <<1>>)>> /\ last_applied = volatile
  /\ HoldsFrame(Default)

\* C10: over VolatileMarshal every write and every commit() returns Ok, every
\* read() returns Ok(default), new() succeeds with the default as live value,
\* no bus call is made and the device is never touched.
C10_VolatileBackend ==
  (marshal = "Volatile")
    => /\ \A a \in 1..Len(mem) : mem[a] = EraseByte
       /\ op \in {"marshal.write", "commit"} => result = OkUnit
       /\ op = "marshal.read" => result = Ok(Default)
       /\ op = "new" => (IsOk(result) /\ ready /\ volatile = <<Default>>)
       /\ NumEv(trace, "eeprom.write") = 0
       /\ NumEv(trace, "eeprom.read") = 0

\* a read() returned the default although another Config had been committed
C10_Witness ==
  /\ marshal = "Volatile" /\ op = "marshal.read"
  /\ lastOk = <<Cfg(1, <<1>>)>>
  /\ result = Ok(Default)

\* C11: a read() of the M24C64 backend returns I2C exactly if one of its bus
\* reads failed, Deku exactly if the bytes it read did not decode, BlankEeprom
\* exactly if the length bytes it read are both 0xFF, and Ok exactly if the
\* bytes decoded; a failed length read is the only bus call of that read(),
\* and from_bytes is called only after two bus reads that succeeded.
C11_ReadErrors ==
  (OnDevice /\ op = "marshal.read")
    => LET blank == /\ ByteAt(address_offset) = EraseByte
                    /\ ByteAt(address_offset + 1) = EraseByte
       IN /\ trace[2].ev = "eeprom.read" /\ trace[2].addr = address_offset
          /\ ~trace[2].ok => (result = Err("I2C") /\ Len(trace) = 2)
          /\ (result.tag = "I2C") <=> HasEv(trace, "eeprom.read", FALSE)
          /\ (result.tag = "Deku") <=> HasEv(trace, "from_bytes", FALSE)
          /\ (result.tag = "BlankEeprom") <=> (trace[2].ok /\ blank)
          /\ IsOk(result) <=> HasEv(trace, "from_bytes", TRUE)
          /\ result.tag \in {"Ok", "I2C", "Deku", "BlankEeprom"}
          /\ NumEv(trace, "from_bytes") = 1
               => /\ NumEv(trace, "eeprom.read") = 2
                  /\ ~HasEv(trace, "eeprom.read", FALSE)

\* a read() failed on the bus read of the payload, after a length read that
\* found a written length
C11_Witness ==
  /\ OnDevice /\ op = "marshal.read"
  /\ Len(trace) = 3 /\ trace[2].ok
  /\ trace[3].ev = "eeprom.read" /\ ~trace[3].ok
  /\ result = Err("I2C")

\* C12: new() leaves the applied snapshot None; apply() sets it to the live
\* value, makes no backend call and changes neither the live value nor the
\* device; commit() and an assignment through current_mut() leave the snapshot
\* as it was; only apply(), new() and the end of the Provider change it;
\* applied() returns it.
C12_ApplyIndependent ==
  [][/\ (op' = "new") => last_applied' = <<>>
     /\ (op' = "apply")
          => /\ last_applied' = volatile /\ volatile' = volatile
             /\ mem' = mem /\ trace' = <<>>
             /\ lastOk' = lastOk /\ wstate' = wstate
     /\ (op' \in {"commit", "current_mut"}) => last_applied' = last_applied
     /\ (last_applied' # last_applied) => op' \in {"apply", "new", "drop"}
     /\ (op' = "applied")
          => (result'.val = last_applied /\ last_applied' = last_applied)]_vars

\* the live value was applied, then changed and committed, then changed again:
\* the snapshot still is the value applied
C12_Witness ==
  /\ ready /\ op = "current_mut"
  /\ last_applied = <<Default>>
  /\ lastOk = <<Cfg(1, <<0>>)>>
  /\ volatile = <<Cfg(1, <<1>>)>>

\* the calls of trace t are those of a write that failed on its second bus
\* write
Torn(t) == NumEv(t, "eeprom.write") = 2 /\ HasEv(t, "eeprom.write", FALSE)

\* C14: a write (or commit) on the M24C64 backend of a Config that does not
\* serialise returns Deku, makes no bus call and leaves the device as it was;
\* one whose length write fails returns I2C and makes no second bus write; one
\* whose payload write fails returns I2C, and the device then holds the new
\* length at address_offset.  I2C is returned only when a bus write failed.
C14_WriteFailure ==
  [][(OnDevice /\ op' \in {"marshal.write", "commit"})
     => /\ trace'[2].ev = "to_bytes"
        /\ ~IsOk(to_bytes(arg'[1]))
             => /\ result' = Err("Deku")
                /\ Len(trace') = 2
                /\ mem' = mem
        /\ IsOk(to_bytes(arg'[1]))
             => /\ Len(trace') >= 3
                /\ trace'[3] = Ev("eeprom.write", address_offset, 2, trace'[3].ok)
                /\ ~trace'[3].ok => (result' = Err("I2C") /\ Len(trace') = 3)
                /\ trace'[3].ok
                     => /\ Len(trace') = 4
                        /\ trace'[4] = Ev("eeprom.write", address_offset + 2,
                                          PayloadLen(arg'[1]), trace'[4].ok)
                        /\ result' = (IF trace'[4].ok THEN OkUnit ELSE Err("I2C"))
                        /\ \A i \in 1..2 :
                             mem'[((address_offset + i - 1) % Len(mem')) + 1]
                               = to_le_bytes(PayloadLen(arg'[1]))[i]]_vars

\* a write of a one-field Config on a blank device failed on the payload write
\* before any payload byte was stored: the length is there, the payload is not
C14_Witness ==
  /\ OnDevice /\ op = "marshal.write" /\ result = Err("I2C")
  /\ Torn(trace) /\ arg = <<Cfg(1, <<0>>)>>
  /\ ByteAt(address_offset) = 2 /\ ByteAt(address_offset + 1) = 0
  /\ ByteAt(address_offset + 2) = EraseByte

FrameRange(len) == address_offset..(address_offset + 2 + len - 1)

\* the device holds c's payload bytes from address_offset + 2 on
HoldsPayload(c) ==
  \A i \in 1..PayloadLen(c) :
    ByteAt(address_offset + 2 + i - 1) = to_bytes(c).val[1][i]

\* C16: a write or commit on the M24C64 backend, and the write of the default
\* in new(), change no byte outside [address_offset, address_offset + 2 + len),
\* len being the payload's length, whether they succeed or fail; after one
\* that succeeded the device holds the frame; read() changes no byte.
C16_FrameEffect ==
  [][/\ (OnDevice /\ op' \in {"marshal.write", "commit", "new"} /\ arg' # <<>>)
          => /\ \A a \in 0..(Len(mem) - 1) :
                  mem'[a + 1] # mem[a + 1] => a \in FrameRange(PayloadLen(arg'[1]))
             /\ Len(mem') = Len(mem)
             /\ IsOk(result') => HoldsFrame(arg[1])'
     /\ (op' = "new" /\ arg' = <<>>) => mem' = mem
     /\ (op' = "marshal.read") => mem' = mem]_vars

\* new() on an erased device at offset 0 wrote the one-byte default: length
\* 01 00, the payload byte, and every other byte still 0xFF
C16_Witness ==
  /\ OnDevice /\ op = "new" /\ IsOk(result) /\ address_offset = 0
  /\ arg = <<Default>>
  /\ mem = <<1, 0, 0>> \o [a \in 1..(Len(mem) - 3) |-> EraseByte]

\* C17 as claimed: after a write on the M24C64 backend that returned Ok the
\* two bytes at address_offset, read as a little-endian u16, are the number of
\* payload bytes and are not FF FF, and a read() that follows a write that
\* returned Ok never returns BlankEeprom.
C17_LengthMatchesPayload ==
  /\ (OnDevice /\ op = "marshal.write" /\ IsOk(result))
       => /\ from_le_bytes(<<ByteAt(address_offset), ByteAt(address_offset + 1)>>)
               = PayloadLen(arg[1])
          /\ ~IsBlank(<<ByteAt(address_offset), ByteAt(address_offset + 1)>>)
  /\ (OnDevice /\ op = "marshal.read" /\ wstate = "ok")
       => result.tag # "BlankEeprom"

\* C18: a new() whose read() returned Ok makes no backend write and no bus
\* write, leaves the device as it was and returns a Provider with applied()
\* None whose live value is the Config read: the default over VolatileMarshal,
\* the Config whose payload the device holds over M24C64 (the one written
\* last, when that write returned Ok and its length fits).
C18_ReadOnlyConstruction ==
  [][(op' = "new" /\ trace'[1].ok)
     => /\ NumEv(trace', "marshal.write") = 0
        /\ NumEv(trace', "eeprom.write") = 0
        /\ mem' = mem /\ lastOk' = lastOk /\ wstate' = wstate
        /\ ready' /\ IsOk(result')
        /\ last_applied' = <<>>
        /\ Len(volatile') = 1
        /\ ~OnDevice => volatile' = <<Default>>
        /\ OnDevice => HoldsPayload(volatile'[1])
        /\ (OnDevice /\ wstate = "ok" /\ Fits(lastOk[1])) => volatile' = lastOk]_vars

\* new() adopted the one-field Config stored on the device
C18_Witness ==
  /\ OnDevice /\ op = "new" /\ ready /\ trace[1].ok
  /\ volatile = <<Cfg(1, <<1>>)>> /\ HoldsFrame(Cfg(1, <<1>>))
  /\ last_applied = <<>>

\* C19 as claimed: when the last write that reached the bus of the M24C64
\* backend was a commit() that returned Ok (lastOk is the value live at that
\* commit), a new() over the same device and offset whose bus calls succeed
\* returns a Provider whose live value is that value, and writes nothing.
C19_SurvivesReconstruction ==
  [][(/\ OnDevice /\ op' = "new" /\ wstate = "ok"
      /\ ~HasEv(trace', "eeprom.read", FALSE)
      /\ ~HasEv(trace', "eeprom.write", FALSE))
     => /\ ready' /\ volatile' = lastOk
        /\ mem' = mem
        /\ NumEv(trace', "marshal.write") = 0]_vars

====
